---------------------------- MODULE Spec2Model ----------------------------
(***************************************************************************)
(* ResumeMatch: storage synchronisation between the web application, the   *)
(* content script and the extension popup, and the popup's use of the      *)
(* captured page.                                                          *)
(*                                                                         *)
(* JavaScript values are records [t, v]: t is the typeof-like tag and v a  *)
(* string holding the content (the text of a string, the literal of a      *)
(* number or boolean, the identity of an object's content).                *)
(***************************************************************************)
EXTENDS Integers, Sequences, FiniteSets, TLC

VARIABLES
    sync,       \* chrome.storage.sync: key -> JS value (Undefined when absent)
    local,      \* localStorage of each origin: key -> JS value (Null when absent)
    chromeCap,  \* per execution context: how much of chrome.storage.sync exists
    rev,        \* which revision of getMasterResume is built (1 or 2)
    self,       \* the execution context of the single-context specifications
    last,       \* the most recent completed call, with the stores before it
    prev,       \* the call completed before it
    latest,     \* the resume passed to the most recent setMasterResume
    faulted,    \* TRUE once any synchronized-store operation has failed
    openTabs,   \* the open tabs showing the web application
    pendingTabs,\* the open tabs with an undelivered "storage" event
    popup,      \* the popup document: its state object and what it shows
    capturing,  \* per job page: the capture running in its content script
    chain,      \* the popup's buttons and the calls their handlers await
    dom         \* per job page: its content script and the injected button

vars == <<sync, local, chromeCap, rev, self, last, prev, latest, faulted,
          openTabs, pendingTabs, popup, capturing, chain, dom>>

flowVars == <<capturing, chain, dom>>

extVars == <<openTabs, pendingTabs, popup, flowVars>>

---------------------------------------------------------------------------
(* Bounds *)

NumResumes == 2
NumPages == 2
MaxWebTabs == 2
MaxCalls == 3

---------------------------------------------------------------------------
(* JavaScript values *)

Undefined == [t |-> "undefined", v |-> ""]
Null      == [t |-> "null", v |-> ""]
False     == [t |-> "boolean", v |-> "false"]
Zero      == [t |-> "number", v |-> "0"]
Str(s)    == [t |-> "string", v |-> s]
Obj(id)   == [t |-> "object", v |-> id]
Err(name) == [t |-> "error", v |-> name]

ResumeNames == <<"resume1", "resume2", "resume3", "resume4">>
Resumes == {Obj(ResumeNames[i]) : i \in 1..NumResumes}

\* The job pages a capture can be made on, and what a capture reads there:
\* document.documentElement.outerHTML, document.body.innerText,
\* window.location.href and the record extractJobDescriptionFromDOM finds.
PageNames == <<"page1", "page2", "page3", "page4">>
Pages == 1..NumPages
PageHTML(p) == Str("<html>" \o PageNames[p] \o "</html>")
PageText(p) == Str("text of " \o PageNames[p])
PageURL(p)  == Str("https://jobs.example/" \o PageNames[p])
HeuristicJob(p) == Obj("heuristicJob:" \o PageNames[p])
HeuristicJobs == {HeuristicJob(p) : p \in Pages}

\* The job records the external parsing client produces.
AiJob          == Obj("aiJob")
PlaceholderJob == Obj("placeholderJob")
DefaultJob     == Obj("defaultJob")

\* Objects the endpoint's response text can denote: a job in the format the
\* prompt of extractJobRequirements asks for (title, company, location,
\* requirements, skills; no description), a job whose strings carry
\* surrounding blanks, the object with no fields, a tailoring, and
\* score records with a score in range, above it, below it, given as a
\* numeric string, given as a word, or absent.
ExtractedJob == Obj("extractedJob")
PaddedJob   == Obj("paddedJob")
EmptyObject == Obj("")
Tailoring   == Obj("tailoring")
ScoreNames  == {"85", "150", "-5", "'70'", "'high'", "none"}
ScoreReply(name) == Obj("score:" \o name)
ReplyObjects ==
    {AiJob, ExtractedJob, PaddedJob, EmptyObject, Tailoring} \cup {ScoreReply(n) : n \in ScoreNames}

\* The strings a capture reads in the job pages.
CapturedStrings ==
    UNION {{PageHTML(p), PageText(p), PageURL(p)} : p \in Pages}

\* The JSON-serializable values the model stores and parses.
JsonValues ==
    {Null, False, Zero, Str(""), Str("null")}
        \cup ReplyObjects \cup Resumes \cup HeuristicJobs \cup CapturedStrings

\* The values handed to the storage adapter: the falsy ones and an object.
KVValues == {Null, False, Zero, Str(""), Obj("resume1")}

\* JavaScript truthiness (the `value ? a : b` and `if (value)` tests).
Truthy(x) ==
    ~ \/ x.t \in {"undefined", "null"}
      \/ x.t = "boolean" /\ x.v = "false"
      \/ x.t = "number" /\ x.v = "0"
      \/ x.t = "string" /\ x.v = ""

\* String(x), the coercion applied by JSON.parse and localStorage.setItem.
StringOf(x) ==
    CASE x.t = "object"    -> "[object Object]"
      [] x.t = "null"      -> "null"
      [] x.t = "undefined" -> "undefined"
      [] OTHER             -> x.v

Quote == "\""

\* JSON.stringify: a JS string holding the JSON text (undefined for undefined).
JSON_stringify(x) ==
    CASE x.t = "undefined" -> Undefined
      [] x.t = "null"      -> Str("null")
      [] x.t = "string"    -> Str(Quote \o x.v \o Quote)
      [] x.t = "object"    -> Str("{" \o x.v \o "}")
      [] OTHER             -> Str(x.v)

\* JSON.parse of a text: the value it denotes, or a SyntaxError.
JsonText == [x \in JsonValues |-> JSON_stringify(x).v]

JSON_parse(text) ==
    LET hits == {x \in JsonValues : JsonText[x] = text}
    IN  IF hits # {}
        THEN [threw |-> FALSE, val |-> CHOOSE x \in hits : TRUE]
        ELSE [threw |-> TRUE, val |-> Err("SyntaxError")]

---------------------------------------------------------------------------
(* Stores and execution contexts *)

MASTER_RESUME == "resumematch_master_resume"
USER_ID       == "resumematch_user_id"
PAGE_HTML     == "currentPageHTML"
PAGE_TEXT     == "currentPageText"
PAGE_URL      == "currentPageURL"
PAGE_AT       == "currentPageAnalyzedAt"
JOB_DATA      == "currentJobData"

Keys == {MASTER_RESUME, USER_ID, PAGE_HTML, PAGE_TEXT, PAGE_URL, PAGE_AT, JOB_DATA}

\* "none": chrome undefined; "nostorage": chrome.storage undefined;
\* "nosync": chrome.storage.sync undefined; "full": the backend exists.
Caps == {"none", "nostorage", "nosync", "full"}

HasChrome(cap)  == cap # "none"
HasStorage(cap) == cap \in {"nosync", "full"}
HasSync(cap)    == cap = "full"

\* webapp: the web application document; webcs: the content script in that
\* document; jobcs: the content script in a job page; popup: the popup.
Contexts == {"webapp", "webcs", "jobcs", "popup"}
Origins  == {"web", "job", "ext"}

Origin(ctx) ==
    CASE ctx \in {"webapp", "webcs"} -> "web"
      [] ctx = "jobcs"               -> "job"
      [] OTHER                       -> "ext"

EmptySync  == [k \in Keys |-> Undefined]
EmptyLocal == [k \in Keys |-> Null]

\* What a call leaves behind: the stores, how its promise settled
\* ("resolved", "rejected", or "pending" when it never settles), its value,
\* the backend accesses it made in order (":fail" marks one that ended
\* with chrome.runtime.lastError), and whether a backend failed.
Ret(loc, syn, outcome, result, effects, fault) ==
    [loc |-> loc, syn |-> syn, outcome |-> outcome, result |-> result,
     effects |-> effects, fault |-> fault]

NoCall ==
    [op |-> "none", ctx |-> "none", key |-> "", arg |-> Undefined,
     outcome |-> "none", result |-> Undefined, effects |-> <<>>,
     fault |-> FALSE, preLoc |-> EmptyLocal, preSyn |-> EmptySync]

Has(effects, e) == \E i \in 1..Len(effects) : effects[i] = e

---------------------------------------------------------------------------
(* Key-value storage adapter (utils/storage) *)

\* saveToStorage(key, value); ok: chrome.runtime.lastError is unset.
saveToStorage(cap, loc, syn, key, value, ok) ==
    IF HasChrome(cap) /\ HasStorage(cap)
    THEN IF ~HasSync(cap)
         THEN \* chrome.storage.sync.set on undefined throws in the executor
              Ret(loc, syn, "rejected", Err("TypeError"), <<>>, FALSE)
         ELSE IF ok
              THEN Ret(loc, [syn EXCEPT ![key] = JSON_stringify(value)],
                       "resolved", Undefined, <<"sync.set">>, FALSE)
              ELSE Ret(loc, syn, "rejected", Err("lastError"),
                       <<"sync.set:fail">>, TRUE)
    ELSE Ret([loc EXCEPT ![key] = Str(StringOf(JSON_stringify(value)))], syn,
             "resolved", Undefined, <<"local.set">>, FALSE)

\* Mutation: the truthiness test is applied to the parsed value.
getFromStorage_truthyResult(cap, loc, syn, key, ok) ==
    LET value == IF HasChrome(cap) /\ HasStorage(cap) THEN syn[key] ELSE loc[key]
        p == JSON_parse(StringOf(value))
        eff == IF HasChrome(cap) /\ HasStorage(cap)
               THEN <<"sync.get">> ELSE <<"local.get">>
    IN  IF HasChrome(cap) /\ HasStorage(cap) /\ ~HasSync(cap)
        THEN Ret(loc, syn, "rejected", Err("TypeError"), <<>>, FALSE)
        ELSE IF HasChrome(cap) /\ HasStorage(cap) /\ ~ok
             THEN Ret(loc, syn, "rejected", Err("lastError"),
                      <<"sync.get:fail">>, TRUE)
             ELSE IF Truthy(value) /\ ~p.threw /\ Truthy(p.val)
                  THEN Ret(loc, syn, "resolved", p.val, eff, FALSE)
                  ELSE Ret(loc, syn, "resolved", Null, eff, FALSE)

\* getFromStorage(key). A JSON.parse that throws inside the chrome callback
\* settles nothing; in the localStorage branch it rejects the async function.
getFromStorage(cap, loc, syn, key, ok) ==
    IF HasChrome(cap) /\ HasStorage(cap)
    THEN IF ~HasSync(cap)
         THEN Ret(loc, syn, "rejected", Err("TypeError"), <<>>, FALSE)
         ELSE IF ~ok
              THEN Ret(loc, syn, "rejected", Err("lastError"),
                       <<"sync.get:fail">>, TRUE)
              ELSE LET value == syn[key]
                       p == JSON_parse(StringOf(value))
                   IN  IF ~Truthy(value)
                       THEN Ret(loc, syn, "resolved", Null, <<"sync.get">>, FALSE)
                       ELSE IF p.threw
                            THEN Ret(loc, syn, "pending", Undefined,
                                     <<"sync.get">>, FALSE)
                            ELSE Ret(loc, syn, "resolved", p.val,
                                     <<"sync.get">>, FALSE)
    ELSE LET value == loc[key]
             p == JSON_parse(StringOf(value))
         IN  IF ~Truthy(value)
             THEN Ret(loc, syn, "resolved", Null, <<"local.get">>, FALSE)
             ELSE IF p.threw
                  THEN Ret(loc, syn, "rejected", p.val, <<"local.get">>, FALSE)
                  ELSE Ret(loc, syn, "resolved", p.val, <<"local.get">>, FALSE)

\* removeFromStorage(key).
removeFromStorage(cap, loc, syn, key, ok) ==
    IF HasChrome(cap) /\ HasStorage(cap)
    THEN IF ~HasSync(cap)
         THEN Ret(loc, syn, "rejected", Err("TypeError"), <<>>, FALSE)
         ELSE IF ok
              THEN Ret(loc, [syn EXCEPT ![key] = Undefined], "resolved",
                       Undefined, <<"sync.remove">>, FALSE)
              ELSE Ret(loc, syn, "rejected", Err("lastError"),
                       <<"sync.remove:fail">>, TRUE)
    ELSE Ret([loc EXCEPT ![key] = Null], syn, "resolved", Undefined,
             <<"local.remove">>, FALSE)

\* The keys of STORAGE_KEYS that the model has.
STORAGE_KEYS == {MASTER_RESUME, USER_ID}

\* clearAllStorage(), the same in both revisions: with chrome.storage it
\* removes the keys from chrome.storage.sync only, without it from
\* localStorage only.
clearAllStorage(cap, loc, syn, ok) ==
    IF HasChrome(cap) /\ HasStorage(cap)
    THEN IF ~HasSync(cap)
         THEN Ret(loc, syn, "rejected", Err("TypeError"), <<>>, FALSE)
         ELSE IF ok
              THEN Ret(loc, [k \in Keys |-> IF k \in STORAGE_KEYS THEN Undefined
                                            ELSE syn[k]],
                       "resolved", Undefined, <<"sync.remove">>, FALSE)
              ELSE Ret(loc, syn, "rejected", Err("lastError"),
                       <<"sync.remove:fail">>, TRUE)
    ELSE Ret([k \in Keys |-> IF k \in STORAGE_KEYS THEN Null ELSE loc[k]], syn,
             "resolved", Undefined, <<"local.remove">>, FALSE)

---------------------------------------------------------------------------
(* Master resume accessor *)

\* Mutation: the resume is written through the storage adapter alone.
setMasterResume_viaAdapter(cap, loc, syn, resume, ok) ==
    saveToStorage(cap, loc, syn, MASTER_RESUME, resume, ok)

\* Mutation: the mirror write comes first and its failure is not caught.
setMasterResume_syncFirst(cap, loc, syn, resume, ok) ==
    LET text == JSON_stringify(resume)
        loc1 == [loc EXCEPT ![MASTER_RESUME] = Str(StringOf(text))]
    IN  IF HasChrome(cap) /\ HasStorage(cap) /\ HasSync(cap)
        THEN IF ok
             THEN Ret(loc1, [syn EXCEPT ![MASTER_RESUME] = text], "resolved",
                      Undefined, <<"sync.set", "local.set">>, FALSE)
             ELSE Ret(loc, syn, "rejected", Err("lastError"),
                      <<"sync.set:fail">>, TRUE)
        ELSE Ret(loc1, syn, "resolved", Undefined, <<"local.set">>, FALSE)

\* setMasterResume(resume), the same in both revisions; ok: the mirror write
\* to chrome.storage.sync succeeds.
setMasterResume(cap, loc, syn, resume, ok) ==
    LET text == JSON_stringify(resume)
        loc1 == [loc EXCEPT ![MASTER_RESUME] = Str(StringOf(text))]
    IN  IF HasChrome(cap) /\ HasStorage(cap) /\ HasSync(cap)
        THEN IF ok
             THEN Ret(loc1, [syn EXCEPT ![MASTER_RESUME] = text], "resolved",
                      Undefined, <<"local.set", "sync.set">>, FALSE)
             ELSE Ret(loc1, syn, "resolved", Undefined,
                      <<"local.set", "sync.set:fail">>, TRUE)
        ELSE Ret(loc1, syn, "resolved", Undefined, <<"local.set">>, FALSE)

\* Mutation: a failed replication is not caught and loses the local value.
localFallback2_uncaught(cap, loc, syn, writeOk, effects, fault) ==
    LET stored == loc[MASTER_RESUME]
        p == JSON_parse(StringOf(stored))
        eff == effects \o <<"local.get">>
        w == setMasterResume(cap, loc, syn, p.val, writeOk)
    IN  IF ~Truthy(stored) \/ p.threw
        THEN Ret(loc, syn, "resolved", Null, eff, fault)
        ELSE IF HasChrome(cap) /\ HasStorage(cap) /\ HasSync(cap)
             THEN IF w.fault
                  THEN Ret(w.loc, w.syn, "resolved", Null, eff \o w.effects, TRUE)
                  ELSE Ret(w.loc, w.syn, "resolved", p.val, eff \o w.effects,
                           fault)
             ELSE Ret(loc, syn, "resolved", p.val, eff, fault)

\* The localStorage fallback of getMasterResume, second revision: the
\* replication goes through setMasterResume.
localFallback2(cap, loc, syn, writeOk, effects, fault) ==
    LET stored == loc[MASTER_RESUME]
        p == JSON_parse(StringOf(stored))
        eff == effects \o <<"local.get">>
        w == setMasterResume(cap, loc, syn, p.val, writeOk)
    IN  IF ~Truthy(stored) \/ p.threw
        THEN Ret(loc, syn, "resolved", Null, eff, fault)
        ELSE IF HasChrome(cap) /\ HasStorage(cap) /\ HasSync(cap)
             THEN Ret(w.loc, w.syn, "resolved", p.val, eff \o w.effects,
                      fault \/ w.fault)
             ELSE Ret(loc, syn, "resolved", p.val, eff, fault)

\* getMasterResume, second revision.
getMasterResume2(cap, loc, syn, readOk, writeOk) ==
    IF HasChrome(cap) /\ HasStorage(cap) /\ HasSync(cap)
    THEN IF ~readOk
         THEN localFallback2(cap, loc, syn, writeOk, <<"sync.get:fail">>, TRUE)
         ELSE LET value == syn[MASTER_RESUME]
                  p == JSON_parse(value.v)
                  result == IF ~Truthy(value) THEN Null
                            ELSE IF value.t # "string" THEN value
                            ELSE IF p.threw THEN Null
                            ELSE p.val
              IN  IF Truthy(result)
                  THEN Ret(loc, syn, "resolved", result, <<"sync.get">>, FALSE)
                  ELSE localFallback2(cap, loc, syn, writeOk, <<"sync.get">>,
                                      FALSE)
    ELSE localFallback2(cap, loc, syn, writeOk, <<>>, FALSE)

\* The localStorage fallback of getMasterResume, first revision: the
\* replication goes through saveToStorage, its rejection is caught.
localFallback1(cap, loc, syn, writeOk, effects, fault) ==
    LET stored == loc[MASTER_RESUME]
        p == JSON_parse(StringOf(stored))
        eff == effects \o <<"local.get">>
        w == saveToStorage(cap, loc, syn, MASTER_RESUME, p.val, writeOk)
    IN  IF ~Truthy(stored) \/ p.threw
        THEN Ret(loc, syn, "resolved", Null, eff, fault)
        ELSE IF HasChrome(cap) /\ HasStorage(cap)
             THEN Ret(w.loc, w.syn, "resolved", p.val, eff \o w.effects,
                      fault \/ w.fault)
             ELSE Ret(loc, syn, "resolved", p.val, eff, fault)

\* Mutation: the rejection of getFromStorage is not caught.
getMasterResume1_uncaught(cap, loc, syn, readOk, writeOk) ==
    IF HasChrome(cap) /\ HasStorage(cap)
    THEN LET g == getFromStorage(cap, loc, syn, MASTER_RESUME, readOk)
         IN  CASE g.outcome \in {"pending", "rejected"} -> g
               [] g.outcome = "resolved" /\ Truthy(g.result) -> g
               [] OTHER -> localFallback1(cap, loc, syn, writeOk, g.effects,
                                          g.fault)
    ELSE localFallback1(cap, loc, syn, writeOk, <<>>, FALSE)

\* getMasterResume, first revision: the read goes through getFromStorage.
getMasterResume1(cap, loc, syn, readOk, writeOk) ==
    IF HasChrome(cap) /\ HasStorage(cap)
    THEN LET g == getFromStorage(cap, loc, syn, MASTER_RESUME, readOk)
         IN  CASE g.outcome = "pending" -> g
               [] g.outcome = "resolved" /\ Truthy(g.result) -> g
               [] OTHER -> localFallback1(cap, loc, syn, writeOk, g.effects,
                                          g.fault)
    ELSE localFallback1(cap, loc, syn, writeOk, <<>>, FALSE)

getMasterResume(r, cap, loc, syn, readOk, writeOk) ==
    IF r = 1 THEN getMasterResume1(cap, loc, syn, readOk, writeOk)
    ELSE getMasterResume2(cap, loc, syn, readOk, writeOk)

---------------------------------------------------------------------------
(* Calls as actions *)

\* Context ctx completes call op(key, arg) with outcome r.
Complete(ctx, op, key, arg, r) ==
    /\ local' = [local EXCEPT ![Origin(ctx)] = r.loc]
    /\ sync' = r.syn
    /\ prev' = last
    /\ last' = [op |-> op, ctx |-> ctx, key |-> key, arg |-> arg,
                outcome |-> r.outcome, result |-> r.result,
                effects |-> r.effects, fault |-> r.fault,
                preLoc |-> local[Origin(ctx)], preSyn |-> sync]
    /\ faulted' = (faulted \/ r.fault)

SaveToStorage(ctx, keys) ==
    \E k \in keys, v \in KVValues, ok \in BOOLEAN :
        /\ Complete(ctx, "saveToStorage", k, v,
                    saveToStorage(chromeCap[ctx], local[Origin(ctx)], sync, k, v, ok))
        /\ UNCHANGED <<chromeCap, rev, self, latest, extVars>>

GetFromStorage(ctx, keys) ==
    \E k \in keys, ok \in BOOLEAN :
        /\ Complete(ctx, "getFromStorage", k, Undefined,
                    getFromStorage(chromeCap[ctx], local[Origin(ctx)], sync, k, ok))
        /\ UNCHANGED <<chromeCap, rev, self, latest, extVars>>

RemoveFromStorage(ctx, keys) ==
    \E k \in keys, ok \in BOOLEAN :
        /\ Complete(ctx, "removeFromStorage", k, Undefined,
                    removeFromStorage(chromeCap[ctx], local[Origin(ctx)], sync, k, ok))
        /\ UNCHANGED <<chromeCap, rev, self, latest, extVars>>

SetMasterResume(ctx) ==
    \E r \in Resumes, ok \in BOOLEAN :
        /\ Complete(ctx, "setMasterResume", MASTER_RESUME, r,
                    setMasterResume(chromeCap[ctx], local[Origin(ctx)], sync, r, ok))
        /\ latest' = r
        /\ UNCHANGED <<chromeCap, rev, self, extVars>>

GetMasterResume(ctx) ==
    \E readOk \in BOOLEAN, writeOk \in BOOLEAN :
        /\ Complete(ctx, "getMasterResume", MASTER_RESUME, Undefined,
                    getMasterResume(rev, chromeCap[ctx], local[Origin(ctx)], sync,
                                    readOk, writeOk))
        /\ UNCHANGED <<chromeCap, rev, self, latest, extVars>>

---------------------------------------------------------------------------
(* One execution context using the storage adapter *)

KVKeys == {MASTER_RESUME, USER_ID}

NoPopup ==
    [masterResume |-> Null, jobData |-> Null, status |-> "closed",
     jobTitle |-> "", jobCompany |-> "", endpoint |-> "notcalled"]

\* No capture is running in any job page.
NoCaptures == [p \in Pages |-> [pc |-> "idle", found |-> FALSE]]

\* No content script has run in any job page.
NoDom ==
    [p \in Pages |-> [loaded |-> FALSE, waiting |-> FALSE,
                      injectedButton |-> FALSE, buttons |-> 0, handlers |-> 0,
                      calls |-> 0]]

\* The popup before any click: no handler is awaiting a call, the download
\* and save buttons are disabled, nothing is tailored.
NoChain ==
    [tailor |-> "idle", download |-> "idle", save |-> "idle",
     tailorDisabled |-> FALSE, downloadDisabled |-> TRUE, saveDisabled |-> TRUE,
     jobDescription |-> Null, tailoredResume |-> Null,
     atsScore |-> [t |-> "number", v |-> 0],
     banner |-> "none", ran |-> <<>>, wellFormed |-> TRUE,
     scoredResume |-> Null]


\* What chrome offers each context when it is not the one under study.
DefaultCap(ctx) == IF ctx = "webapp" THEN "nostorage" ELSE "full"

\* A document of the web has no chrome.storage; an extension page has it,
\* with or without its sync area.
ContextCaps(ctx) ==
    IF ctx = "webapp" THEN {"none", "nostorage"} ELSE {"nosync", "full"}

InitOneContext ==
    /\ sync = EmptySync
    /\ local = [o \in Origins |-> EmptyLocal]
    /\ self \in {"webapp", "popup"}
    /\ \E c \in ContextCaps(self) :
         chromeCap = [x \in Contexts |-> IF x = self THEN c ELSE DefaultCap(x)]
    /\ rev \in {1, 2}
    /\ last = NoCall
    /\ prev = NoCall
    /\ latest = Undefined
    /\ faulted = FALSE
    /\ openTabs = {}
    /\ pendingTabs = {}
    /\ popup = NoPopup
    /\ capturing = NoCaptures
    /\ dom = NoDom
    /\ chain = NoChain

NextKV ==
    \/ SaveToStorage(self, KVKeys)
    \/ GetFromStorage(self, KVKeys)
    \/ RemoveFromStorage(self, KVKeys)

SpecKV == InitOneContext /\ [][NextKV]_vars

NextResume ==
    \/ SetMasterResume(self)
    \/ GetMasterResume(self)

SpecResume == InitOneContext /\ [][NextResume]_vars

\* The context also clears the storage.
ClearAllStorage ==
    \E ok \in BOOLEAN :
        /\ Complete(self, "clearAllStorage", "", Undefined,
                    clearAllStorage(chromeCap[self], local[Origin(self)], sync, ok))
        /\ UNCHANGED <<chromeCap, rev, self, latest, extVars>>

NextClear ==
    \/ SetMasterResume(self)
    \/ GetMasterResume(self)
    \/ ClearAllStorage

SpecClear == InitOneContext /\ [][NextClear]_vars

---------------------------------------------------------------------------
(* Content script *)

\* syncResumeToExtension(): copies the page's localStorage entry, as the
\* string it is, into chrome.storage.sync; every error is caught or logged.
syncResumeToExtension(cap, loc, syn, ok) ==
    LET resumeData == loc[MASTER_RESUME]
    IN  IF HasChrome(cap) /\ Truthy(resumeData) /\ HasStorage(cap) /\ HasSync(cap)
        THEN IF ok
             THEN Ret(loc, [syn EXCEPT ![MASTER_RESUME] = resumeData],
                      "resolved", Undefined, <<"local.get", "sync.set">>, FALSE)
             ELSE Ret(loc, syn, "resolved", Undefined,
                      <<"local.get", "sync.set:fail">>, TRUE)
        ELSE Ret(loc, syn, "resolved", Undefined, <<"local.get">>, FALSE)

\* The instants new Date().toISOString() can give.
TimeStamps == {Str("2026-01-01T00:00:00.000Z"), Str("2026-01-02T00:00:00.000Z")}

\* What one click captures: the page's markup, text and URL, the instant,
\* and the heuristic record when extractJobDescriptionFromDOM found one.
dataToStore(p, found, at) ==
    [k \in {PAGE_HTML, PAGE_TEXT, PAGE_URL, PAGE_AT} \cup
           (IF found THEN {JOB_DATA} ELSE {}) |->
        CASE k = PAGE_HTML -> PageHTML(p)
          [] k = PAGE_TEXT -> PageText(p)
          [] k = PAGE_URL  -> PageURL(p)
          [] k = PAGE_AT   -> at
          [] OTHER         -> HeuristicJob(p)]

\* chrome.storage.sync.set(items): every item is written, or none is.
syncSet(syn, items) ==
    [k \in Keys |-> IF k \in DOMAIN items THEN items[k] ELSE syn[k]]

\* Mutation: without chrome.storage.sync the capture falls back to
\* localStorage and still asks for the popup.
captureClick_localFallback(cap, loc, syn, p, found, at, ok) ==
    LET items == dataToStore(p, found, at)
    IN  IF HasChrome(cap) /\ HasStorage(cap) /\ HasSync(cap)
        THEN IF ok
             THEN Ret(loc, syncSet(syn, items), "resolved", Undefined,
                      <<"sync.set", "openPopup">>, FALSE)
             ELSE Ret(loc, syn, "resolved", Undefined,
                      <<"sync.set:fail", "alert">>, TRUE)
        ELSE Ret([k \in Keys |-> IF k \in DOMAIN items
                                 THEN Str(StringOf(items[k])) ELSE loc[k]],
                 syn, "resolved", Undefined, <<"local.set", "openPopup">>, FALSE)

\* The click handler of the injected button (batch-write revisions).
captureClick(cap, loc, syn, p, found, at, ok) ==
    LET items == dataToStore(p, found, at)
    IN  IF HasChrome(cap) /\ HasStorage(cap) /\ HasSync(cap)
        THEN IF ok
             THEN Ret(loc, syncSet(syn, items), "resolved", Undefined,
                      <<"sync.set", "openPopup">>, FALSE)
             ELSE Ret(loc, syn, "resolved", Undefined,
                      <<"sync.set:fail", "alert">>, TRUE)
        ELSE \* ReferenceError, or reject(new Error("Chrome storage not available"))
             Ret(loc, syn, "resolved", Undefined, <<"alert">>, FALSE)

---------------------------------------------------------------------------
(* External parsing client *)

\* The endpoint as one call sees it: whether the API key is configured,
\* whether generateContent rejects, and the text of its response, given as
\* its pieces in order: "{", "}" and runs of text without braces.
Endpoint(key, failed, text) == [key |-> key, failed |-> failed, text |-> text]

ReplyTexts ==
    { <<"{", "aiJob", "}">>,
      <<"Here is the posting: ", "{", "aiJob", "}", " Anything else?">>,
      <<"Sorry, no posting here.">> }

Endpoints ==
    {Endpoint(FALSE, FALSE, <<>>), Endpoint(TRUE, TRUE, <<>>)}
        \cup {Endpoint(TRUE, FALSE, t) : t \in ReplyTexts}

\* The pieces of a text, put together.
Join(pieces) ==
    LET upTo[i \in 0..Len(pieces)] ==
            IF i = 0 THEN "" ELSE upTo[i - 1] \o pieces[i]
    IN  upTo[Len(pieces)]

\* text.match(/\{[\s\S]*\}/): from the first "{" to the last "}".
matchBraces(text) ==
    LET opens  == {i \in 1..Len(text) : text[i] = "{"}
        first  == CHOOSE i \in opens : \A j \in opens : i <= j
        closes == {i \in 1..Len(text) : text[i] = "}" /\ opens # {} /\ i > first}
        final  == CHOOSE i \in closes : \A j \in closes : i >= j
    IN  IF opens = {} \/ closes = {}
        THEN [found |-> FALSE, text |-> <<>>]
        ELSE [found |-> TRUE, text |-> SubSeq(text, first, final)]

\* The fields of a job record: title, company, requirements and skills
\* ("" and <<>> where the object has none).
JobTitle(job) ==
    CASE job \in {AiJob, ExtractedJob} -> "Staff Engineer"
      [] job = PaddedJob            -> " Staff Engineer "
      [] job = PlaceholderJob       -> "Job Position"
      [] job = DefaultJob           -> "Unknown Position"
      [] job \in HeuristicJobs      -> "Senior React Developer, " \o job.v
      [] OTHER                      -> ""

JobCompany(job) ==
    CASE job \in {AiJob, ExtractedJob} -> "Acme"
      [] job = PaddedJob            -> "Acme "
      [] job = PlaceholderJob       -> "Company"
      [] job = DefaultJob           -> "Unknown Company"
      [] job \in HeuristicJobs      -> "Tech Corp, " \o job.v
      [] OTHER                      -> ""

JobRequirements(job) ==
    CASE job \in {AiJob, ExtractedJob} -> <<"kubernetes">>
      [] job = PaddedJob            -> <<" kubernetes", " ">>
      [] OTHER                      -> <<>>

JobSkills(job) ==
    CASE job \in {AiJob, ExtractedJob} -> <<"react", "typescript">>
      [] job = PaddedJob            -> <<"react ", "", "typescript">>
      [] OTHER                      -> <<>>

JobFields(job) ==
    [title |-> JobTitle(job), company |-> JobCompany(job),
     requirements |-> JobRequirements(job), skills |-> JobSkills(job)]

\* String.prototype.trim on the strings of the model.
Trim(str) ==
    CASE str = " Staff Engineer " -> "Staff Engineer"
      [] str = "Acme "            -> "Acme"
      [] str = " kubernetes"      -> "kubernetes"
      [] str = "react "           -> "react"
      [] str = " "                -> ""
      [] OTHER                    -> str

\* list.filter((r) => r && r.trim()).map((r) => r.trim())
trimmedList(list) ==
    LET kept == SelectSeq(list, LAMBDA r : r # "" /\ Trim(r) # "")
    IN  [i \in 1..Len(kept) |-> Trim(kept[i])]

\* The fields of result_obj, built from the parsed response.
resultFields(parsed) ==
    [title |-> Trim(IF JobTitle(parsed) # "" THEN JobTitle(parsed)
                    ELSE "Unknown Position"),
     company |-> Trim(IF JobCompany(parsed) # "" THEN JobCompany(parsed)
                      ELSE "Unknown Company"),
     requirements |-> trimmedList(JobRequirements(parsed)),
     skills |-> trimmedList(JobSkills(parsed))]

\* Mutation: the record is the default whatever was parsed.
jobFromParsed_defaults(parsed) ==
    DefaultJob

\* The record built from the parsed response: its fields, or the defaults
\* "Unknown Position" / "Unknown Company" where it has none.
jobFromParsed(parsed) ==
    CHOOSE job \in {AiJob, DefaultJob} : JobFields(job) = resultFields(parsed)

\* parseJobFromHTML(htmlContent): initGemini() is called outside the try,
\* everything after it inside.
parseJobFromHTML(htmlContent, ep) ==
    LET direct == JSON_parse(Join(ep.text))
        m == matchBraces(ep.text)
        inner == JSON_parse(Join(m.text))
        parsed == IF ~direct.threw THEN direct
                  ELSE IF m.found THEN inner
                  ELSE [threw |-> TRUE, val |-> Err("Error")]
    IN  IF ~ep.key
        THEN [threw |-> TRUE, val |-> Err("Gemini API key not configured")]
        ELSE IF ep.failed \/ parsed.threw \/ parsed.val.t \in {"null", "undefined"}
             THEN [threw |-> FALSE, val |-> PlaceholderJob]
             ELSE [threw |-> FALSE, val |-> jobFromParsed(parsed.val)]

---------------------------------------------------------------------------
(* External parsing client: requirements, tailoring, scoring *)

\* A settled call of the client.
Resolved(value) == [outcome |-> "resolved", result |-> value]
Rejected(name) == [outcome |-> "rejected", result |-> Err(name)]

\* initGemini() throws, or generateContent rejects, outside any try.
NoKey == Rejected("Gemini API key not configured")

\* The parsed response as the newer revision obtains it: JSON.parse of the
\* text, else JSON.parse of the brace match, else a thrown Error.
parseDirectThenMatch(text) ==
    LET direct == JSON_parse(Join(text))
        m == matchBraces(text)
    IN  IF ~direct.threw THEN direct
        ELSE IF m.found THEN JSON_parse(Join(m.text))
        ELSE [threw |-> TRUE, val |-> Err("No valid JSON in response")]

\* The parsed response as the older revision and extractJobRequirements
\* obtain it: JSON.parse of the brace match, when there is one.
parseMatch(text) ==
    LET m == matchBraces(text)
    IN  IF m.found THEN JSON_parse(Join(m.text))
        ELSE [threw |-> TRUE, val |-> Err("no match")]

\* Mutation: a response in which nothing parses is raised to the caller.
extractJobRequirements_rethrow(jobDescription, ep) ==
    LET parsed == parseMatch(ep.text)
    IN  IF ~ep.key THEN NoKey
        ELSE IF ep.failed THEN Rejected("generateContent")
        ELSE IF ~parsed.threw THEN Resolved(parsed.val)
        ELSE Rejected("SyntaxError")

\* extractJobRequirements(jobDescription): the same in both revisions.
extractJobRequirements(jobDescription, ep) ==
    LET parsed == parseMatch(ep.text)
    IN  IF ~ep.key THEN NoKey
        ELSE IF ep.failed THEN Rejected("generateContent")
        ELSE IF ~parsed.threw THEN Resolved(parsed.val)
        ELSE Resolved(DefaultJob)

\* The job records that have skills and requirements arrays; on any other
\* value jobDescription.skills.join throws a TypeError.
HasLists(job) ==
    job \in {AiJob, ExtractedJob, PaddedJob, PlaceholderJob, DefaultJob}
                \cup HeuristicJobs

\* The job records that have a description string; on any other value
\* jobDescription.description.substring throws a TypeError.
HasDescription(job) ==
    job \in {AiJob, PaddedJob, PlaceholderJob, DefaultJob} \cup HeuristicJobs

\* list.join(", ") || jobDescription.description.substring(0, n): the
\* description is read when the list joins to the empty string.
joinOrDescription(list, job) ==
    IF list # <<>> THEN "list"
    ELSE IF HasDescription(job) THEN "description"
    ELSE "TypeError"

\* String.prototype.toLowerCase on the strings of the model.
Lower(str) ==
    CASE str = "Developer" -> "developer"
      [] str = "React"     -> "react"
      [] OTHER             -> str

\* The fields of a resume.
ResumeFields(resume) ==
    IF resume = Obj("resume1")
    THEN [contact |-> "resume1", summary |-> "Engineer with ten years",
          skills |-> <<"React", "sql">>,
          experience |-> <<[title |-> "Developer", company |-> "Acme",
                            startDate |-> "2020", description |-> <<"built things">>],
                           [title |-> "Analyst", company |-> "Initech",
                            startDate |-> "2016", description |-> <<"analysed things">>]>>,
          education |-> <<"BSc">>]
    ELSE [contact |-> resume.v, summary |-> "",
          skills |-> <<"typescript">>,
          experience |-> <<[title |-> "Analyst", company |-> "Initech",
                            startDate |-> "2016", description |-> <<"analysed things">>]>>,
          education |-> <<>>]

\* The fields of a parsed tailoring response ("" and <<>> where absent).
tailoredSummary(parsed) ==
    IF parsed = Tailoring THEN "Engineer for this job" ELSE ""

tailoredExperience(parsed) ==
    IF parsed = Tailoring
    THEN <<[jobTitle |-> "developer", originalTitle |-> "Developer",
            newBullets |-> <<"shipped react apps">>]>>
    ELSE <<>>

recommendedSkillsOrder(parsed) ==
    IF parsed = Tailoring THEN <<"sql", "kubernetes", "React">> ELSE <<>>

\* The test of experience.find(...): case-insensitive on jobTitle in the
\* newer revision, exact on originalTitle in the older one.
matchesTitle(g, t, exp) ==
    IF g = 2 THEN Lower(t.jobTitle) = Lower(exp.title)
    ELSE t.originalTitle = exp.title

\* Mutation: only the entries the response matches are kept.
rewriteExperience_matchedOnly(g, experience, entries) ==
    LET hit(exp) == SelectSeq(entries, LAMBDA t : matchesTitle(g, t, exp))
        kept == SelectSeq(experience, LAMBDA exp : hit(exp) # <<>>)
    IN  [i \in 1..Len(kept) |->
            [kept[i] EXCEPT !.description = hit(kept[i])[1].newBullets]]

\* experience.map(...): each entry as it is ({...exp}), with the bullets of
\* the entry of the response that matches its title, if there is one.
rewriteExperience(g, experience, entries) ==
    [i \in 1..Len(experience) |->
        LET hits == SelectSeq(entries, LAMBDA t : matchesTitle(g, t, experience[i]))
        IN  [experience[i] EXCEPT
                !.description = IF hits # <<>> THEN hits[1].newBullets ELSE @]]

\* The tailored resume the newer revision builds inside its try.
tailored2(master, parsed) ==
    [contact |-> master.contact,
     summary |-> IF tailoredSummary(parsed) # "" THEN tailoredSummary(parsed)
                 ELSE master.summary,
     skills |-> IF parsed = Tailoring
                THEN SelectSeq(recommendedSkillsOrder(parsed),
                               LAMBDA k : \E i \in 1..Len(master.skills) :
                                             master.skills[i] = k)
                ELSE master.skills,
     experience |-> rewriteExperience(2, master.experience,
                                     tailoredExperience(parsed)),
     education |-> master.education]

\* The tailored resume the older revision builds.
tailored1(master, parsed) ==
    [contact |-> master.contact,
     summary |-> IF tailoredSummary(parsed) # "" THEN tailoredSummary(parsed)
                 ELSE master.summary,
     skills |-> master.skills,
     experience |-> rewriteExperience(1, master.experience,
                                     tailoredExperience(parsed)),
     education |-> master.education]

\* tailorResumeForJob, newer revision: the endpoint call and the parsing
\* are inside the try, initGemini() and the prompt are not.
tailorResumeForJob2(masterResume, jobDescription, ep) ==
    LET parsed == parseDirectThenMatch(ep.text)
    IN  IF ~ep.key THEN NoKey
        ELSE IF ~HasLists(jobDescription) THEN Rejected("TypeError")
        ELSE IF "TypeError" \in
                  { joinOrDescription(JobSkills(jobDescription), jobDescription),
                    joinOrDescription(JobRequirements(jobDescription), jobDescription) }
             THEN Rejected("TypeError")
        ELSE IF ep.failed \/ parsed.threw \/ parsed.val = Null
             THEN Resolved(masterResume)
             ELSE Resolved(tailored2(masterResume, parsed.val))

\* tailorResumeForJob, older revision: only the parsing is inside the try.
tailorResumeForJob1(masterResume, jobDescription, ep) ==
    LET parsed == parseMatch(ep.text)
    IN  IF ~ep.key THEN NoKey
        ELSE IF ~HasLists(jobDescription) THEN Rejected("TypeError")
        ELSE IF ep.failed THEN Rejected("generateContent")
        ELSE IF parsed.threw THEN Resolved(masterResume)
        ELSE Resolved(tailored1(masterResume, parsed.val))

tailorResumeForJob(g, masterResume, jobDescription, ep) ==
    IF g = 1 THEN tailorResumeForJob1(masterResume, jobDescription, ep)
    ELSE tailorResumeForJob2(masterResume, jobDescription, ep)

\* Numbers: Num(n) is the number n, NaN is not-a-number.
Num(n) == [t |-> "number", v |-> n]
NaN == [t |-> "NaN", v |-> 0]

\* parsed.score and parsed.matchPercentage of a parsed response.
scoreField(parsed) ==
    CASE parsed = ScoreReply("85")     -> Num(85)
      [] parsed = ScoreReply("150")    -> Num(150)
      [] parsed = ScoreReply("-5")     -> Num(-5)
      [] parsed = ScoreReply("'70'")   -> Str("70")
      [] parsed = ScoreReply("'high'") -> Str("high")
      [] OTHER                         -> Undefined

\* x || 0
orZero(x) ==
    CASE x.t \in {"undefined", "NaN"} -> Num(0)
      [] x.t = "string"               -> IF x.v = "" THEN Num(0) ELSE x
      [] OTHER                        -> x

\* The number a value converts to in Math.max / Math.min.
ToNumber(x) ==
    CASE x.t = "number"                -> x
      [] x.t = "string" /\ x.v = "70"  -> Num(70)
      [] OTHER                         -> NaN

\* Math.min(100, Math.max(0, x))
clamp(x) ==
    LET n == ToNumber(x)
    IN  IF n = NaN THEN NaN
        ELSE IF n.v < 0 THEN Num(0)
        ELSE IF n.v > 100 THEN Num(100)
        ELSE n

\* resumeStr.includes(k): k occurs in the lower-cased text of the resume.
includes(resume, k) ==
    \/ k \in {"", " "}
    \/ \E i \in 1..Len(resume.skills) : Lower(resume.skills[i]) = k

\* Math.round(x / y * 100), for y > 0.
roundPercent(x, y) == (200 * x + y) \div (2 * y)

\* The catch block of the newer calculateATSScore: keyword overlap.
keywordFallback(resume, jobDescription) ==
    LET listed == JobSkills(jobDescription) \o JobRequirements(jobDescription)
        jobKeywords == [i \in 1..Len(listed) |-> Lower(listed[i])]
        matches == SelectSeq(jobKeywords, LAMBDA k : includes(resume, k))
        matchPercentage == IF Len(jobKeywords) = 0 THEN NaN
                           ELSE Num(roundPercent(Len(matches), Len(jobKeywords)))
    IN  [score |-> IF matchPercentage = NaN THEN NaN
                   ELSE IF matchPercentage.v < 30 THEN Num(30)
                   ELSE matchPercentage,
         matchPercentage |-> matchPercentage,
         keywordMatches |-> SubSeq(matches, 1, IF Len(matches) < 5 THEN Len(matches) ELSE 5)]

\* The record returned by the older revision when nothing was parsed.
ZeroScore == [score |-> Num(0), matchPercentage |-> Num(0), keywordMatches |-> <<>>]

\* calculateATSScore, newer revision: initGemini() and the texts of the
\* prompt (jobDescription.skills.join, jobDescription.description.substring)
\* are outside the try.
calculateATSScore2(resume, jobDescription, ep) ==
    LET parsed == parseDirectThenMatch(ep.text)
    IN  IF ~ep.key THEN NoKey
        ELSE IF ~HasLists(jobDescription) \/ ~HasDescription(jobDescription)
             THEN Rejected("TypeError")
        ELSE IF ep.failed \/ parsed.threw \/ parsed.val = Null
             THEN Resolved(keywordFallback(resume, jobDescription))
             ELSE Resolved([score |-> clamp(orZero(scoreField(parsed.val))),
                            matchPercentage |-> clamp(orZero(scoreField(parsed.val))),
                            keywordMatches |-> <<>>])

\* calculateATSScore, older revision.
calculateATSScore1(resume, jobDescription, ep) ==
    LET parsed == parseMatch(ep.text)
    IN  IF ~ep.key THEN NoKey
        ELSE IF ~HasLists(jobDescription) THEN Rejected("TypeError")
        ELSE IF ep.failed THEN Rejected("generateContent")
        ELSE IF parsed.threw THEN Resolved(ZeroScore)
        ELSE Resolved([score |-> orZero(scoreField(parsed.val)),
                       matchPercentage |-> orZero(scoreField(parsed.val)),
                       keywordMatches |-> <<>>])

calculateATSScore(g, resume, jobDescription, ep) ==
    IF g = 1 THEN calculateATSScore1(resume, jobDescription, ep)
    ELSE calculateATSScore2(resume, jobDescription, ep)

\* The responses the endpoint can give: each object alone, inside prose,
\* after prose that has braces of its own; prose alone; a cut-off object;
\* the JSON text null.
Replies ==
    UNION { { <<"{", o.v, "}">>,
              <<"Here is the result: ", "{", o.v, "}", " Anything else?">>,
              <<"Following the schema ", "{", "fields", "}", ": ", "{", o.v, "}">> }
            : o \in ReplyObjects }
      \cup { <<"Sorry, no posting here.">>, <<"{", "aiJo">>, <<"null">> }

ClientEndpoints ==
    {Endpoint(FALSE, FALSE, <<>>), Endpoint(TRUE, TRUE, <<>>)}
        \cup {Endpoint(TRUE, FALSE, t) : t \in Replies}

\* The job records the popup can hand to the client.
JobInputs == {AiJob, ExtractedJob, PaddedJob, PlaceholderJob, DefaultJob, EmptyObject} \cup HeuristicJobs

\* One call of the client: last keeps its arguments and how it settled.
Call(op, r) ==
    last' = [last EXCEPT !.op = op, !.ctx = "popup",
                         !.outcome = r.outcome, !.result = r.result]

\* What a call of the client leaves alone.
storeVars == <<sync, local, chromeCap, rev, self, prev, latest, faulted,
               openTabs, pendingTabs, popup, flowVars>>

ParseJobFromHTML ==
    LET r == parseJobFromHTML(last.arg.html, last.arg.ep)
    IN  /\ Call("parseJobFromHTML",
                IF r.threw THEN [outcome |-> "rejected", result |-> r.val]
                ELSE Resolved(r.val))
        /\ UNCHANGED storeVars

ExtractJobRequirements ==
    /\ Call("extractJobRequirements",
            extractJobRequirements(last.arg.job, last.arg.ep))
    /\ UNCHANGED storeVars

TailorResumeForJob ==
    /\ Call("tailorResumeForJob",
            tailorResumeForJob(last.arg.g, last.arg.resume, last.arg.job, last.arg.ep))
    /\ UNCHANGED storeVars

CalculateATSScore ==
    /\ Call("calculateATSScore",
            calculateATSScore(last.arg.g, last.arg.resume, last.arg.job, last.arg.ep))
    /\ UNCHANGED storeVars

\* A page that has the client loaded, with the arguments and the endpoint
\* its calls will meet.
InitClient ==
    /\ sync = EmptySync
    /\ local = [o \in Origins |-> EmptyLocal]
    /\ self = "popup"
    /\ chromeCap = [x \in Contexts |-> IF x = "webapp" THEN "none" ELSE "full"]
    /\ rev = 2
    /\ \E g \in {1, 2}, p \in Pages, resume \in Resumes, job \in JobInputs,
          ep \in ClientEndpoints :
         last = [NoCall EXCEPT !.arg = [g |-> g, html |-> PageHTML(p),
                                        resume |-> ResumeFields(resume),
                                        job |-> job, ep |-> ep]]
    /\ prev = NoCall
    /\ latest = Undefined
    /\ faulted = FALSE
    /\ openTabs = {}
    /\ pendingTabs = {}
    /\ popup = NoPopup
    /\ capturing = NoCaptures
    /\ dom = NoDom
    /\ chain = NoChain

NextClient ==
    \/ ParseJobFromHTML
    \/ ExtractJobRequirements
    \/ TailorResumeForJob
    \/ CalculateATSScore

SpecClient == InitClient /\ [][NextClient]_vars

---------------------------------------------------------------------------
(* Popup *)

\* getFromStorageSync(key): the popup's own reader of chrome.storage.sync.
getFromStorageSync(cap, syn, key, ok) ==
    LET value == syn[key]
        p == JSON_parse(value.v)
    IN  IF HasChrome(cap) /\ HasStorage(cap) /\ HasSync(cap)
        THEN IF ~ok
             THEN [outcome |-> "rejected", result |-> Err("lastError")]
             ELSE IF value.t = "string"
                  THEN [outcome |-> "resolved",
                        result |-> IF p.threw THEN value ELSE p.val]
                  ELSE [outcome |-> "resolved",
                        result |-> IF Truthy(value) THEN value ELSE Null]
        ELSE [outcome |-> "rejected", result |-> Err("Error")]

\* updateUI(): what the popup shows for a state object.
updateUI(masterResume, jobData, endpoint) ==
    [masterResume |-> masterResume, jobData |-> jobData, endpoint |-> endpoint,
     status |-> IF ~Truthy(masterResume) THEN "NoMasterResume"
                ELSE IF Truthy(jobData) THEN "ReadyToTailor"
                ELSE "NoJobPostingFound",
     jobTitle |-> IF Truthy(masterResume) /\ Truthy(jobData)
                  THEN JobTitle(jobData) ELSE "",
     jobCompany |-> IF Truthy(masterResume) /\ Truthy(jobData)
                    THEN JobCompany(jobData) ELSE ""]

\* The job part of init(): the markup is parsed by the endpoint when there
\* is markup; the heuristic record is used when that call throws or when
\* there is no markup.
loadJob(pageHTML, basicJobData, parse) ==
    IF Truthy(pageHTML)
    THEN IF ~parse.threw THEN parse.val
         ELSE IF Truthy(basicJobData) THEN basicJobData
         ELSE Null
    ELSE IF Truthy(basicJobData) THEN basicJobData
    ELSE Null

\* What became of the endpoint during init().
endpointSeen(pageHTML, ep) ==
    IF ~Truthy(pageHTML) THEN "notcalled"
    ELSE IF ~ep.key THEN "nokey"
    ELSE IF ep.failed THEN "failed"
    ELSE "replied"

\* A rejected read is caught and leaves null.
orNull(read) == IF read.outcome = "resolved" THEN read.result ELSE Null

\* init() from the point where the resume (g), the markup (h) and the
\* heuristic record (b) have been read.
initLoaded(g, h, b, ep) ==
    [ret |-> Ret(g.loc, g.syn, "resolved", Undefined, g.effects,
                 g.fault \/ h.outcome = "rejected" \/ b.outcome = "rejected"),
     popup |-> updateUI(g.result,
                        loadJob(orNull(h), orNull(b),
                                parseJobFromHTML(orNull(h), ep)),
                        endpointSeen(orNull(h), ep))]

\* init() from the point where getMasterResume() has ended with g.
initStored(cap, loc, syn, g, in) ==
    IF ~HasChrome(cap)
    THEN \* ReferenceError at the first use of chrome, caught by init
         [ret |-> Ret(loc, syn, "resolved", Undefined, <<>>, FALSE),
          popup |-> updateUI(Null, Null, "notcalled")]
    ELSE IF g.outcome = "pending"
         THEN [ret |-> g, popup |-> [NoPopup EXCEPT !.status = "initial"]]
         ELSE initLoaded(g,
                         getFromStorageSync(cap, g.syn, PAGE_HTML, in.htmlOk),
                         getFromStorageSync(cap, g.syn, JOB_DATA, in.jobOk),
                         in.endpoint)

\* init(): load the resume, the captured markup and the heuristic record,
\* parse the markup, render.  in: the outcome of each storage access and
\* the endpoint.  Gives the call's outcome and the popup that results.
init(r, cap, loc, syn, in) ==
    initStored(cap, loc, syn,
               getMasterResume(r, cap, loc, syn, in.readOk, in.writeOk), in)

---------------------------------------------------------------------------
(* The three contexts together *)

TabIds == 1..MaxWebTabs

\* A handler of context ctx ran to its end with r; last keeps what it was
\* given, how it ended and what it did.
Run(ctx, op, arg, r) ==
    /\ local' = [local EXCEPT ![Origin(ctx)] = r.loc]
    /\ sync' = r.syn
    /\ last' = [NoCall EXCEPT !.op = op, !.ctx = ctx, !.arg = arg,
                              !.outcome = r.outcome, !.result = r.result,
                              !.effects = r.effects, !.fault = r.fault]
    /\ faulted' = (faulted \/ r.fault)
    /\ prev' = prev

\* A tab opens the web application: its content script runs and, the host
\* being localhost, calls syncResumeToExtension().
OpenWebApp ==
    \E t \in TabIds \ openTabs, ok \in BOOLEAN :
        /\ openTabs' = openTabs \cup {t}
        /\ Run("webcs", "syncResumeToExtension", Undefined,
                    syncResumeToExtension(chromeCap["webcs"], local["web"], sync, ok))
        /\ UNCHANGED <<flowVars, chromeCap, rev, self, latest, pendingTabs, popup>>

\* The user uploads a resume in a tab: setMasterResume in the document; the
\* browser queues a "storage" event for every other document of the origin.
UploadResume ==
    \E t \in openTabs, r \in Resumes, ok \in BOOLEAN :
        /\ Run("webapp", "setMasterResume", r,
                    setMasterResume(chromeCap["webapp"], local["web"], sync, r, ok))
        /\ latest' = r
        /\ pendingTabs' = pendingTabs \cup (openTabs \ {t})
        /\ UNCHANGED <<flowVars, chromeCap, rev, self, openTabs, popup>>

\* The "storage" listener of a content script, for the master resume key.
StorageEvent ==
    \E t \in pendingTabs, ok \in BOOLEAN :
        /\ pendingTabs' = pendingTabs \ {t}
        /\ Run("webcs", "syncResumeToExtension", Undefined,
                    syncResumeToExtension(chromeCap["webcs"], local["web"], sync, ok))
        /\ UNCHANGED <<flowVars, chromeCap, rev, self, latest, openTabs, popup>>

\* The onMessage listener of a content script, for action "syncResume".
SyncResumeMessage ==
    \E t \in openTabs, ok \in BOOLEAN :
        /\ Run("webcs", "syncResumeToExtension", Undefined,
                    syncResumeToExtension(chromeCap["webcs"], local["web"], sync, ok))
        /\ UNCHANGED <<flowVars, chromeCap, rev, self, latest, openTabs, pendingTabs, popup>>

CloseWebApp ==
    \E t \in openTabs :
        /\ openTabs' = openTabs \ {t}
        /\ pendingTabs' = pendingTabs \ {t}
        /\ UNCHANGED <<flowVars, sync, local, chromeCap, rev, self, last, prev, latest,
                       faulted, popup>>

\* A click on the injected button of a job page.
CaptureClick ==
    \E p \in Pages, found \in BOOLEAN, at \in TimeStamps, ok \in BOOLEAN :
        /\ Run("jobcs", "captureClick", PageHTML(p),
                    captureClick(chromeCap["jobcs"], local["job"], sync, p,
                                 found, at, ok))
        /\ UNCHANGED <<flowVars, chromeCap, rev, self, latest, openTabs, pendingTabs, popup>>

\* The popup opens and runs init().
PopupInit ==
    \E readOk \in BOOLEAN, writeOk \in BOOLEAN, htmlOk \in BOOLEAN,
       jobOk \in BOOLEAN, ep \in Endpoints :
        LET i == init(rev, chromeCap["popup"], local["ext"], sync,
                      [readOk |-> readOk, writeOk |-> writeOk,
                       htmlOk |-> htmlOk, jobOk |-> jobOk, endpoint |-> ep])
        IN  /\ Run("popup", "init", Undefined, i.ret)
            /\ popup' = i.popup
            /\ UNCHANGED <<flowVars, chromeCap, rev, self, latest, openTabs, pendingTabs>>

\* The web application and the popup: nothing is stored yet.
InitSync ==
    /\ sync = EmptySync
    /\ local = [o \in Origins |-> EmptyLocal]
    /\ self = "popup"
    /\ \E w \in ContextCaps("webapp") :
         chromeCap = [x \in Contexts |-> IF x = "webapp" THEN w ELSE "full"]
    /\ rev \in {1, 2}
    /\ last = NoCall
    /\ prev = NoCall
    /\ latest = Undefined
    /\ faulted = FALSE
    /\ openTabs = {}
    /\ pendingTabs = {}
    /\ popup = NoPopup
    /\ capturing = NoCaptures
    /\ dom = NoDom
    /\ chain = NoChain

NextSync ==
    \/ OpenWebApp
    \/ UploadResume
    \/ StorageEvent
    \/ SyncResumeMessage
    \/ CloseWebApp
    \/ PopupInit

SpecSync == InitSync /\ [][NextSync]_vars

\* What the web application's origin and chrome.storage.sync hold once a
\* content script has copied an uploaded resume (or when none was uploaded).
SyncedResumes == {Undefined} \cup {JSON_stringify(r) : r \in Resumes}

\* A job page and the popup: the web application is closed, and the
\* resume, if one was uploaded, has been copied by its content script.
InitCapture ==
    /\ \E m \in SyncedResumes :
         /\ sync = [EmptySync EXCEPT ![MASTER_RESUME] = m]
         /\ local = [o \in Origins |->
                       IF o = "web" /\ m # Undefined
                       THEN [EmptyLocal EXCEPT ![MASTER_RESUME] = m]
                       ELSE EmptyLocal]
         /\ latest = IF m = Undefined THEN Undefined ELSE JSON_parse(m.v).val
    /\ self = "popup"
    /\ \E j \in Caps :
         chromeCap = [x \in Contexts |->
                        CASE x = "webapp" -> "none"
                          [] x = "jobcs"  -> j
                          [] OTHER        -> "full"]
    /\ rev \in {1, 2}
    /\ last = NoCall
    /\ prev = NoCall
    /\ faulted = FALSE
    /\ openTabs = {}
    /\ pendingTabs = {}
    /\ popup = NoPopup
    /\ capturing = NoCaptures
    /\ dom = NoDom
    /\ chain = NoChain

NextCapture ==
    \/ CaptureClick
    \/ PopupInit

SpecCapture == InitCapture /\ [][NextCapture]_vars

---------------------------------------------------------------------------
(* Content script in a page that is not the web application *)

\* What a page's own script can put under the master resume key of its
\* localStorage: a text that is not JSON, or the JSON text of a record of
\* its own.
ForeignTexts == {Str("not a resume"), JSON_stringify(HeuristicJob(1))}

\* A document of the job site writes the key in its localStorage; the
\* browser queues a "storage" event for the other documents of the site.
PageSetsItem ==
    \E t \in TabIds, text \in ForeignTexts :
        /\ local' = [local EXCEPT !["job"][MASTER_RESUME] = text]
        /\ pendingTabs' = pendingTabs \cup (TabIds \ {t})
        /\ UNCHANGED <<flowVars, sync, chromeCap, rev, self, last, prev, latest,
                       faulted, openTabs, popup>>

\* The "storage" listener of the content script of a job page: it is
\* registered on every page, with no test of the host.
JobPageStorageEvent ==
    \E t \in pendingTabs, ok \in BOOLEAN :
        /\ pendingTabs' = pendingTabs \ {t}
        /\ Run("jobcs", "syncResumeToExtension", Undefined,
                    syncResumeToExtension(chromeCap["jobcs"], local["job"], sync, ok))
        /\ UNCHANGED <<flowVars, chromeCap, rev, self, latest, openTabs, popup>>

\* The onMessage listener of the content script of a job page, for action
\* "syncResume".
JobPageSyncResumeMessage ==
    \E ok \in BOOLEAN :
        /\ Run("jobcs", "syncResumeToExtension", Undefined,
                    syncResumeToExtension(chromeCap["jobcs"], local["job"], sync, ok))
        /\ UNCHANGED <<flowVars, chromeCap, rev, self, latest, openTabs,
                       pendingTabs, popup>>

NextJobPage ==
    \/ PageSetsItem
    \/ JobPageStorageEvent
    \/ JobPageSyncResumeMessage
    \/ GetMasterResume("popup")

SpecJobPage == InitCapture /\ [][NextJobPage]_vars

---------------------------------------------------------------------------
(* Popup buttons *)

\* What the endpoint can do to one call made from an open popup whose API
\* key is configured: fail, answer with the object asked for, or answer
\* with prose.
StageEndpoints(o) ==
    { Endpoint(TRUE, TRUE, <<>>),
      Endpoint(TRUE, FALSE, <<"{", o.v, "}">>),
      Endpoint(TRUE, FALSE, <<"Sorry, no posting here.">>) }

\* The response is exactly the JSON object the prompt asks for.
AsRequested(ep, o) == ~ep.failed /\ ep.text = <<"{", o.v, "}">>

\* The popup is opened (once): init() runs in a fresh document.
OpenPopup ==
    /\ popup.status = "closed"
    /\ PopupInit

\* What the buttons' handlers leave alone.
pageVars == <<sync, local, chromeCap, rev, self, last, prev, latest, faulted,
              openTabs, pendingTabs, popup, capturing, dom>>

\* The catch block of the tailor handler.
tailorFailed == [chain EXCEPT !.tailor = "idle", !.banner = "error",
                              !.tailorDisabled = FALSE]

\* Click on the tailor button: without a resume or a job the handler
\* returns; otherwise it disables the button and awaits
\* extractJobRequirements.
TailorClick ==
    /\ popup.status # "closed"
    /\ ~chain.tailorDisabled
    /\ chain' = IF ~Truthy(popup.masterResume) \/ ~Truthy(popup.jobData)
                THEN chain
                ELSE [chain EXCEPT !.tailor = "extractJobRequirements",
                                   !.banner = "loading",
                                   !.tailorDisabled = TRUE,
                                   !.ran = <<"extractJobRequirements">>,
                                   !.wellFormed = TRUE]
    /\ UNCHANGED pageVars

\* extractJobRequirements settles; the handler goes on to
\* tailorResumeForJob, or to its catch block.
ExtractSettles ==
    \E ep \in StageEndpoints(ExtractedJob) \cup StageEndpoints(AiJob) :
        LET r == extractJobRequirements(popup.jobData, ep)
        IN  /\ chain.tailor = "extractJobRequirements"
            /\ chain' = IF r.outcome = "rejected" THEN tailorFailed
                        ELSE [chain EXCEPT !.jobDescription = r.result,
                                           !.wellFormed = AsRequested(ep, ExtractedJob),
                                           !.tailor = "tailorResumeForJob",
                                           !.ran = @ \o <<"tailorResumeForJob">>]
            /\ UNCHANGED pageVars

\* tailorResumeForJob settles; the handler goes on to calculateATSScore, or
\* to its catch block.
TailorSettles ==
    \E ep \in StageEndpoints(Tailoring) :
        LET r == tailorResumeForJob(rev, ResumeFields(popup.masterResume),
                                    chain.jobDescription, ep)
        IN  /\ chain.tailor = "tailorResumeForJob"
            /\ chain' = IF r.outcome = "rejected" THEN tailorFailed
                        ELSE [chain EXCEPT !.tailoredResume = r.result,
                                           !.wellFormed = @ /\ AsRequested(ep, Tailoring),
                                           !.tailor = "calculateATSScore",
                                           !.ran = @ \o <<"calculateATSScore">>]
            /\ UNCHANGED pageVars

\* calculateATSScore settles; the handler shows the score and enables the
\* three buttons, or goes to its catch block.
ScoreSettles ==
    \E ep \in StageEndpoints(ScoreReply("85")) :
        LET r == calculateATSScore(rev, chain.tailoredResume,
                                   chain.jobDescription, ep)
        IN  /\ chain.tailor = "calculateATSScore"
            /\ chain' = IF r.outcome = "rejected"
                        THEN [tailorFailed EXCEPT
                                 !.wellFormed = @ /\ AsRequested(ep, ScoreReply("85"))]
                        ELSE [chain EXCEPT !.atsScore = r.result.score,
                                           !.scoredResume = chain.tailoredResume,
                                           !.wellFormed = @ /\ AsRequested(ep, ScoreReply("85")),
                                           !.tailor = "idle",
                                           !.banner = "success",
                                           !.downloadDisabled = FALSE,
                                           !.saveDisabled = FALSE,
                                           !.tailorDisabled = FALSE]
            /\ UNCHANGED pageVars

\* Click on the download button: the handler disables the button and
\* awaits generateResumeDocx.
DownloadClick ==
    /\ popup.status # "closed"
    /\ ~chain.downloadDisabled
    /\ chain' = IF chain.tailoredResume = Null \/ ~Truthy(popup.jobData)
                THEN chain
                ELSE [chain EXCEPT !.download = "generateResumeDocx",
                                   !.banner = "none",
                                   !.downloadDisabled = TRUE]
    /\ UNCHANGED pageVars

DownloadSettles ==
    \E ok \in BOOLEAN :
        /\ chain.download = "generateResumeDocx"
        /\ chain' = [chain EXCEPT !.download = "idle",
                                  !.banner = IF ok THEN "success" ELSE "error",
                                  !.downloadDisabled = FALSE]
        /\ UNCHANGED pageVars

\* Click on the save button: the handler disables the button and awaits
\* saveApplication.
SaveClick ==
    /\ popup.status # "closed"
    /\ ~chain.saveDisabled
    /\ chain' = IF \/ chain.tailoredResume = Null
                   \/ ~Truthy(popup.jobData) \/ ~Truthy(popup.masterResume)
                THEN chain
                ELSE [chain EXCEPT !.save = "saveApplication",
                                   !.banner = "none",
                                   !.saveDisabled = TRUE]
    /\ UNCHANGED pageVars

ApplicationSaveSettles ==
    \E ok \in BOOLEAN :
        /\ chain.save = "saveApplication"
        /\ chain' = [chain EXCEPT !.save = "idle",
                                  !.banner = IF ok THEN "success" ELSE "error",
                                  !.saveDisabled = FALSE]
        /\ UNCHANGED pageVars

\* The instant of the capture the popup is opened on.
CapturedAt == CHOOSE at \in TimeStamps : TRUE

\* A resume has (or has not) been copied to chrome.storage.sync and a job
\* page has been captured; the popup is closed.
InitPopup ==
    /\ \E m \in SyncedResumes, p \in Pages, found \in BOOLEAN :
         /\ sync = syncSet([EmptySync EXCEPT ![MASTER_RESUME] = m],
                           dataToStore(p, found, CapturedAt))
         /\ latest = IF m = Undefined THEN Undefined ELSE JSON_parse(m.v).val
    /\ local = [o \in Origins |-> EmptyLocal]
    /\ self = "popup"
    /\ chromeCap = [x \in Contexts |-> IF x = "webapp" THEN "none" ELSE "full"]
    /\ rev \in {1, 2}
    /\ last = NoCall
    /\ prev = NoCall
    /\ faulted = FALSE
    /\ openTabs = {}
    /\ pendingTabs = {}
    /\ popup = NoPopup
    /\ capturing = NoCaptures
    /\ dom = NoDom
    /\ chain = NoChain

NextPopup ==
    \/ OpenPopup
    \/ TailorClick
    \/ ExtractSettles
    \/ TailorSettles
    \/ ScoreSettles
    \/ DownloadClick
    \/ DownloadSettles
    \/ SaveClick
    \/ ApplicationSaveSettles

SpecPopup == InitPopup /\ [][NextPopup]_vars

---------------------------------------------------------------------------
(* Content script, revision with one awaited saveToStorage per key *)

\* What a click on page p captures for a key.
captured(p, key) ==
    CASE key = PAGE_HTML -> PageHTML(p)
      [] key = PAGE_TEXT -> PageText(p)
      [] key = PAGE_URL  -> PageURL(p)
      [] OTHER           -> HeuristicJob(p)

\* The key saved after key, or "done" when the handler goes on to openPopup.
nextKey(key, found) ==
    CASE key = PAGE_HTML -> PAGE_TEXT
      [] key = PAGE_TEXT -> PAGE_URL
      [] key = PAGE_URL  -> IF found THEN JOB_DATA ELSE "done"
      [] OTHER           -> "done"

\* A click on the button of page p: the button is disabled, the page is
\* captured and the handler awaits saveToStorage("currentPageHTML", ...).
ClickSequential ==
    \E p \in Pages, found \in BOOLEAN :
        /\ capturing[p].pc = "idle"
        /\ capturing' = [capturing EXCEPT ![p] = [pc |-> PAGE_HTML, found |-> found]]
        /\ UNCHANGED <<sync, local, chromeCap, rev, self, last, prev, latest,
                       faulted, openTabs, pendingTabs, popup, chain, dom>>

\* The saveToStorage the handler of page p awaits settles: on success the
\* handler goes on to the next key, or sends openPopup after the last one;
\* on rejection it alerts and re-enables the button.
SaveSettles ==
    \E p \in Pages, ok \in BOOLEAN :
        LET c == capturing[p]
            r == saveToStorage(chromeCap["jobcs"], local["job"], sync, c.pc,
                               captured(p, c.pc), ok)
            next == IF r.outcome = "resolved" THEN nextKey(c.pc, c.found) ELSE "failed"
            tell == CASE next = "done"   -> <<"openPopup">>
                      [] next = "failed" -> <<"alert">>
                      [] OTHER           -> <<>>
        IN  /\ c.pc # "idle"
            /\ Run("jobcs", "saveStep", captured(p, c.pc),
                   [r EXCEPT !.effects = r.effects \o tell])
            /\ capturing' = [capturing EXCEPT ![p] =
                                [pc |-> IF next \in {"done", "failed"} THEN "idle" ELSE next,
                                 found |-> c.found]]
            /\ UNCHANGED <<chromeCap, rev, self, latest, openTabs, pendingTabs,
                           popup, chain, dom>>

\* Job pages open in several tabs; nothing is stored yet.
InitSequential ==
    /\ sync = EmptySync
    /\ local = [o \in Origins |-> EmptyLocal]
    /\ self = "popup"
    /\ \E j \in Caps :
         chromeCap = [x \in Contexts |->
                        CASE x = "webapp" -> "none"
                          [] x = "jobcs"  -> j
                          [] OTHER        -> "full"]
    /\ rev \in {1, 2}
    /\ last = NoCall
    /\ prev = NoCall
    /\ latest = Undefined
    /\ faulted = FALSE
    /\ openTabs = {}
    /\ pendingTabs = {}
    /\ popup = NoPopup
    /\ capturing = NoCaptures
    /\ dom = NoDom
    /\ chain = NoChain

NextSequential ==
    \/ ClickSequential
    \/ SaveSettles

SpecSequential == InitSequential /\ [][NextSequential]_vars

---------------------------------------------------------------------------
(* Captures of both content-script revisions, read back in the popup *)

\* The keys of a capture the popup reads.
ReadKeys == {PAGE_HTML, JOB_DATA}

\* Mutation: the stored value is handed back as it is.
readCaptured_unparsed(cap, loc, syn, key, ok) ==
    LET g == getFromStorageSync(cap, syn, key, ok)
    IN  Ret(loc, syn, g.outcome,
            IF g.outcome = "resolved" /\ Truthy(syn[key]) THEN syn[key]
            ELSE g.result,
            <<"sync.get">>, FALSE)

\* getFromStorageSync(key) as a call of the popup.
readCaptured(cap, loc, syn, key, ok) ==
    LET g == getFromStorageSync(cap, syn, key, ok)
    IN  Ret(loc, syn, g.outcome, g.result, <<"sync.get">>, FALSE)

\* The popup calls its getFromStorageSync(key).
GetFromStorageSync ==
    \E key \in ReadKeys, ok \in BOOLEAN :
        /\ Run("popup", "getFromStorageSync", Str(key),
               readCaptured(chromeCap["popup"], local["ext"], sync, key, ok))
        /\ UNCHANGED <<flowVars, chromeCap, rev, self, latest, openTabs,
                       pendingTabs, popup>>

\* The popup calls the storage adapter's getFromStorage(key).
PopupGetFromStorage ==
    \E key \in ReadKeys, ok \in BOOLEAN :
        /\ Run("popup", "getFromStorage", Str(key),
               getFromStorage(chromeCap["popup"], local["ext"], sync, key, ok))
        /\ UNCHANGED <<flowVars, chromeCap, rev, self, latest, openTabs,
                       pendingTabs, popup>>

\* A click in the one job tab that is open, in a build whose content
\* script saves key by key: no other capture is running.
ClickOneTab ==
    /\ rev = 1
    /\ \A q \in Pages : capturing[q].pc = "idle"
    /\ ClickSequential

\* A click in a build whose content script writes one batch.
ClickBatch ==
    /\ rev = 2
    /\ CaptureClick

\* One job tab, in a browser where every extension context has
\* chrome.storage.sync; nothing is stored yet.
InitRead ==
    /\ InitSequential
    /\ chromeCap["jobcs"] = "full"

NextRead ==
    \/ ClickBatch
    \/ ClickOneTab
    \/ SaveSettles
    \/ GetFromStorageSync
    \/ PopupGetFromStorage

SpecRead == InitRead /\ [][NextRead]_vars

---------------------------------------------------------------------------
(* Content script: injection of the capture button *)

\* Mutation: the flag is not tested.
injectButton_unguarded(d) ==
    [d EXCEPT !.buttons = @ + 1, !.handlers = @ + 1,
              !.injectedButton = TRUE, !.calls = @ + 1]

\* injectButton(): returns at once when the flag is set; otherwise appends
\* the button, sets the flag and registers the click handler.
injectButton(d) ==
    IF d.injectedButton THEN [d EXCEPT !.calls = @ + 1]
    ELSE [d EXCEPT !.buttons = @ + 1, !.handlers = @ + 1,
                   !.injectedButton = TRUE, !.calls = @ + 1]

\* The click handler of the injected button: alert when no job is found,
\* else one saveToStorage("currentJobData", ...) followed by openPopup.
contentClick(cap, loc, syn, p, found, ok) ==
    LET w == saveToStorage(cap, loc, syn, JOB_DATA, HeuristicJob(p), ok)
    IN  IF ~found
        THEN Ret(loc, syn, "resolved", Undefined, <<"alert">>, FALSE)
        ELSE Ret(w.loc, w.syn, "resolved", Undefined,
                 w.effects \o (IF w.outcome = "resolved" THEN <<"openPopup">>
                               ELSE <<"alert">>),
                 w.fault)

domVars == <<sync, local, chromeCap, rev, self, last, prev, latest, faulted,
             openTabs, pendingTabs, popup, capturing, chain>>

\* The content script runs in page p: while the document is loading it
\* waits for DOMContentLoaded, otherwise it calls injectButton().
RunContentScript ==
    \E p \in Pages, loading \in BOOLEAN :
        /\ ~dom[p].loaded
        /\ dom' = [dom EXCEPT ![p] =
                      IF loading THEN [@ EXCEPT !.loaded = TRUE, !.waiting = TRUE]
                      ELSE [injectButton(@) EXCEPT !.loaded = TRUE]]
        /\ UNCHANGED domVars

DOMContentLoaded ==
    \E p \in Pages :
        /\ dom[p].waiting
        /\ dom' = [dom EXCEPT ![p] = [injectButton(@) EXCEPT !.waiting = FALSE]]
        /\ UNCHANGED domVars

\* The MutationObserver's callback, after the page (or the script itself)
\* changed the document.
DomMutation ==
    \E p \in Pages :
        /\ dom[p].loaded
        /\ dom[p].calls < MaxCalls
        /\ dom' = [dom EXCEPT ![p] = IF ~@.injectedButton THEN injectButton(@)
                                     ELSE @]
        /\ UNCHANGED domVars

\* The onMessage listener, for action "injectButton".
InjectButtonMessage ==
    \E p \in Pages :
        /\ dom[p].loaded
        /\ dom[p].calls < MaxCalls
        /\ dom' = [dom EXCEPT ![p] = injectButton(@)]
        /\ UNCHANGED domVars

\* A click on the injected button of page p.
ButtonClick ==
    \E p \in Pages, found \in BOOLEAN, ok \in BOOLEAN :
        /\ dom[p].buttons > 0
        /\ Run("jobcs", "contentClick", PageURL(p),
               contentClick(chromeCap["jobcs"], local["job"], sync, p, found, ok))
        /\ UNCHANGED <<flowVars, chromeCap, rev, self, latest, openTabs,
                       pendingTabs, popup>>

NextInject ==
    \/ RunContentScript
    \/ DOMContentLoaded
    \/ DomMutation
    \/ InjectButtonMessage
    \/ ButtonClick

SpecInject == InitSequential /\ [][NextInject]_vars

---------------------------------------------------------------------------
(* Claims about the master resume accessor, checked under SpecResume *)

Cap == chromeCap[self]
Here == local[Origin(self)]

IsGet == last.op = "getMasterResume"
IsSet == last.op = "setMasterResume"

\* The document a localStorage entry holds, as the accessor reads it.
LocalDoc(stored) ==
    IF Truthy(stored) /\ ~JSON_parse(StringOf(stored)).threw
    THEN JSON_parse(StringOf(stored)).val
    ELSE Null

WriteAttempted(effects) == Has(effects, "sync.set") \/ Has(effects, "sync.set:fail")

\* C1: where both backends exist, getMasterResume returns the resume passed
\* to the most recent setMasterResume, whether or not mirror writes failed.
C1_LocalAuthoritative ==
    (IsGet /\ HasSync(Cap) /\ latest # Undefined)
        => (last.outcome = "resolved" /\ last.result = latest)

\* C3: with the synchronized backend unavailable, setMasterResume(r)
\* followed by getMasterResume() returns a document equal to r.
C3_LocalRoundTrip ==
    (IsGet /\ prev.op = "setMasterResume" /\ ~HasSync(Cap))
        => (last.outcome = "resolved" /\ last.result = prev.arg)

C3_Witness ==
    /\ IsGet /\ prev.op = "setMasterResume" /\ Cap = "nosync"
    /\ prev.arg = Obj("resume2") /\ last.result = Obj("resume2")

\* C4: with the synchronized backend unavailable, every getMasterResume and
\* setMasterResume call resolves and touches the local backend only.
C4_DegradesToLocal ==
    ((IsGet \/ IsSet) /\ ~HasSync(Cap))
        => /\ last.outcome = "resolved"
           /\ \A i \in 1..Len(last.effects) :
                  last.effects[i] \in {"local.get", "local.set"}
           /\ Len(last.effects) = 1
           /\ sync = EmptySync

C4_Witness ==
    /\ IsGet /\ Cap = "nosync" /\ rev = 1
    /\ last.outcome = "resolved" /\ last.result = Obj("resume1")

\* C5: getMasterResume consults the synchronized backend first; when it is
\* absent, holds no value or errors, the local value is returned; a value
\* found locally is written to the synchronized backend when that exists,
\* and is returned whether or not that write succeeds.
C5_ReadPath ==
    IsGet =>
        LET missed == \/ ~HasSync(Cap)
                      \/ Has(last.effects, "sync.get:fail")
                      \/ last.preSyn[MASTER_RESUME] = Undefined
            doc == LocalDoc(last.preLoc[MASTER_RESUME])
        IN  /\ HasSync(Cap) => last.effects[1] \in {"sync.get", "sync.get:fail"}
            /\ missed => (last.outcome = "resolved" /\ last.result = doc)
            /\ (missed /\ HasSync(Cap) /\ doc # Null)
                   => WriteAttempted(last.effects)
            /\ ~missed => ~Has(last.effects, "local.get")

C5_Witness ==
    /\ IsGet /\ HasSync(Cap)
    /\ last.preSyn[MASTER_RESUME] = Undefined
    /\ Has(last.effects, "sync.set:fail")
    /\ last.result = Obj("resume1")

\* C6: setMasterResume writes the local backend before it attempts the
\* synchronized one, never rejects, and leaves the local store holding r
\* also when the synchronized write fails.
C6_WritePath ==
    IsSet =>
        /\ last.outcome = "resolved"
        /\ last.effects[1] = "local.set"
        /\ HasSync(Cap) => /\ Len(last.effects) = 2
                           /\ last.effects[2] \in {"sync.set", "sync.set:fail"}
        /\ Here[MASTER_RESUME] = JSON_stringify(last.arg)

C6_Witness ==
    /\ IsSet /\ HasSync(Cap) /\ last.fault
    /\ last.arg = Obj("resume2")
    /\ sync[MASTER_RESUME] = JSON_stringify(Obj("resume1"))

---------------------------------------------------------------------------
(* Claims about the storage adapter, checked under SpecKV *)

IsKV == last.op \in {"saveToStorage", "getFromStorage", "removeFromStorage"}

\* C7: saveToStorage, getFromStorage and removeFromStorage never reject
\* because the synchronized backend is absent, however it is missing.
C7_AbsentBackendNeverRejects ==
    (IsKV /\ ~HasSync(Cap)) => last.outcome = "resolved"

\* C8: in one execution context, a completed saveToStorage(k, v) followed
\* by getFromStorage(k) returns v, a completed removeFromStorage(k) followed
\* by getFromStorage(k) returns null, and saving or removing k changes the
\* value stored under no other key.
C8_AdapterRoundTrip ==
    /\ ( /\ last.op = "getFromStorage" /\ ~last.fault
         /\ prev.op = "saveToStorage" /\ prev.outcome = "resolved"
         /\ prev.key = last.key )
           => (last.outcome = "resolved" /\ last.result = prev.arg)
    /\ ( /\ last.op = "getFromStorage" /\ ~last.fault
         /\ prev.op = "removeFromStorage" /\ prev.outcome = "resolved"
         /\ prev.key = last.key )
           => (last.outcome = "resolved" /\ last.result = Null)
    /\ IsKV => \A k \in Keys \ {last.key} :
                   sync[k] = last.preSyn[k] /\ Here[k] = last.preLoc[k]

C8_Witness ==
    /\ last.op = "getFromStorage" /\ last.key = USER_ID
    /\ prev.op = "saveToStorage" /\ prev.key = USER_ID /\ prev.arg = Zero
    /\ last.result = Zero
    /\ HasSync(Cap)
    /\ sync[MASTER_RESUME] # Undefined

---------------------------------------------------------------------------
(* Claims about the web application, the content scripts and the popup *)

\* C2: a master resume written by the web application is readable by the
\* popup even when the web application is closed before the popup is
\* opened: with every tab of the web application closed, a resume uploaded
\* and no storage operation having failed, the popup's init() loads the
\* latest uploaded resume.
C2_ReadableAfterWebAppClosed ==
    ( /\ last.op = "init"
      /\ openTabs = {}
      /\ latest # Undefined
      /\ ~faulted )
        => popup.masterResume = latest

\* C9: when a heuristic job record is stored and parseJobFromHTML fails at
\* the endpoint, the popup holds and displays the heuristic record after
\* init(), not a placeholder and not "No Job Posting Found".
C9_HeuristicShownOnParseFailure ==
    ( /\ last.op = "init"
      /\ last.outcome = "resolved"
      /\ ~last.fault
      /\ Truthy(popup.masterResume)
      /\ popup.endpoint = "failed"
      /\ sync[JOB_DATA] \in HeuristicJobs )
        => /\ popup.jobData = sync[JOB_DATA]
           /\ popup.status = "ReadyToTailor"
           /\ popup.jobTitle = JobTitle(sync[JOB_DATA])
           /\ popup.jobCompany = JobCompany(sync[JOB_DATA])

\* C10: a capture click sends openPopup only after the write of the
\* captured data to chrome.storage.sync has succeeded; when
\* chrome.storage.sync is unavailable or the write fails, the user is
\* alerted, no openPopup is sent, and no store changes.
C10_OpenPopupOnlyAfterSyncWrite ==
    [][ last'.op = "captureClick" =>
          /\ Has(last'.effects, "openPopup") =>
                /\ last'.effects = <<"sync.set", "openPopup">>
                /\ sync'[PAGE_HTML] = last'.arg
          /\ (~HasSync(chromeCap["jobcs"]) \/ Has(last'.effects, "sync.set:fail")) =>
                /\ Has(last'.effects, "alert")
                /\ ~Has(last'.effects, "openPopup")
                /\ sync' = sync
                /\ local' = local ]_vars

C10_Witness ==
    /\ last.op = "captureClick"
    /\ chromeCap["jobcs"] = "nosync"
    /\ last.effects = <<"alert">>
    /\ sync[PAGE_HTML] = Undefined

---------------------------------------------------------------------------
(* Claims about captures from several tabs *)

Quiet == \A p \in Pages : capturing[p].pc = "idle"

\* C11: once all captures from the open job pages have finished (and none
\* of their writes failed), the stored markup, text and URL come from one
\* and the same capture.
C11_CapturesNeverMix ==
    ( /\ Quiet
      /\ ~faulted
      /\ HasSync(chromeCap["jobcs"])
      /\ sync[PAGE_HTML] # Undefined )
        => \E p \in Pages :
              /\ sync[PAGE_HTML] = JSON_stringify(PageHTML(p))
              /\ sync[PAGE_TEXT] = JSON_stringify(PageText(p))
              /\ sync[PAGE_URL] = JSON_stringify(PageURL(p))

\* C12: after a capture of a page completes successfully, the heuristic
\* record stored under currentJobData, if any, is the one extracted from
\* that page; it is never left over from a capture of a different page.
C12_HeuristicRecordIsFresh ==
    ( /\ last.op = "captureClick"
      /\ Has(last.effects, "openPopup") )
        => \A p \in Pages :
              (last.arg = PageHTML(p) /\ sync[JOB_DATA] # Undefined)
                 => sync[JOB_DATA] = HeuristicJob(p)

---------------------------------------------------------------------------
(* Claims about the external parsing client *)

Ep == last.arg.ep

\* The job handed to the operation is a complete JobDescription record.
IsJobDescription(job) == HasLists(job) /\ HasDescription(job)
Replied == Ep.key /\ ~Ep.failed
ClientOps == {"parseJobFromHTML", "extractJobRequirements",
              "tailorResumeForJob", "calculateATSScore"}

\* C13: when the call to the endpoint fails, or the API key is not
\* configured, each of the four operations resolves (with its fallback)
\* instead of rejecting.
C13_FailureResolvesWithFallback ==
    ( /\ last.op \in ClientOps
      /\ ~Replied
      /\ IsJobDescription(last.arg.job) )
        => last.outcome = "resolved"

\* C14: when the endpoint call of tailorResumeForJob fails, the caller gets
\* the master resume it passed, equal in every field.
C14_FailedTailoringReturnsMaster ==
    ( /\ last.op = "tailorResumeForJob"
      /\ Ep.key /\ Ep.failed
      /\ IsJobDescription(last.arg.job) )
        => /\ last.outcome = "resolved"
           /\ last.result = last.arg.resume

NoBraces(text) == \A i \in 1..Len(text) : text[i] \notin {"{", "}"}

\* C15: when the response text has no brace-delimited substring,
\* parseJobFromHTML, extractJobRequirements and calculateATSScore resolve
\* with their default: a job with the default title and company and empty
\* requirement and skill lists, or the fallback score record.
C15_NoJsonGivesDefault ==
    ( /\ Replied /\ NoBraces(Ep.text)
      /\ IsJobDescription(last.arg.job) )
        => /\ last.op \in ClientOps => last.outcome = "resolved"
           /\ last.op = "parseJobFromHTML" =>
                 /\ JobTitle(last.result) = "Job Position"
                 /\ JobCompany(last.result) = "Company"
                 /\ JobRequirements(last.result) = <<>>
                 /\ JobSkills(last.result) = <<>>
           /\ last.op = "extractJobRequirements" =>
                 /\ JobTitle(last.result) = "Unknown Position"
                 /\ JobCompany(last.result) = "Unknown Company"
                 /\ JobRequirements(last.result) = <<>>
                 /\ JobSkills(last.result) = <<>>
           /\ last.op = "calculateATSScore" =>
                 last.result = IF last.arg.g = 1 THEN ZeroScore
                               ELSE keywordFallback(last.arg.resume, last.arg.job)

C15_Witness ==
    /\ last.op = "extractJobRequirements"
    /\ Replied /\ Ep.text = <<"Sorry, no posting here.">>
    /\ last.result = DefaultJob

\* The response is the object o with prose before it, after it, or both.
Embeds(text, o) ==
    /\ Len(text) > 3
    /\ \E i \in 1..(Len(text) - 2) :
          /\ SubSeq(text, i, i + 2) = <<"{", o.v, "}">>
          /\ \A j \in 1..Len(text) :
                (j < i \/ j > i + 2) => text[j] # o.v

\* The objects each operation asks the endpoint for.
Fits(op, o) ==
    CASE op \in {"parseJobFromHTML", "extractJobRequirements"} -> o \in {AiJob, ExtractedJob, PaddedJob}
      [] op = "tailorResumeForJob" -> o = Tailoring
      [] op = "calculateATSScore"  -> o = ScoreReply("85")
      [] OTHER -> FALSE

\* What an operation builds from the parsed object o: the job with o's
\* fields (trimmed, and without blank entries, by parseJobFromHTML), the
\* resume rewritten by o, the score o gives.
BuiltFrom(op, g, resume, o) ==
    CASE op = "parseJobFromHTML"       -> JobFields(AiJob)
      [] op = "extractJobRequirements" -> JobFields(o)
      [] op = "tailorResumeForJob"     -> IF g = 1 THEN tailored1(resume, o)
                                          ELSE tailored2(resume, o)
      [] OTHER                         -> [score |-> Num(85), matchPercentage |-> Num(85)]

Built(op, result) ==
    CASE op \in {"parseJobFromHTML", "extractJobRequirements"} -> JobFields(result)
      [] op = "tailorResumeForJob" -> result
      [] OTHER -> [score |-> result.score, matchPercentage |-> result.matchPercentage]

\* C16: when the response text is one JSON object surrounded by prose,
\* whatever the prose, each operation extracts that object and builds its
\* result from it.
C16_EmbeddedObjectExtracted ==
    \A o \in ReplyObjects :
        ( /\ Fits(last.op, o)
          /\ Replied /\ Embeds(Ep.text, o)
          /\ IsJobDescription(last.arg.job) )
            => /\ last.outcome = "resolved"
               /\ Built(last.op, last.result)
                    = BuiltFrom(last.op, last.arg.g, last.arg.resume, o)

InRange(x) == x.t = "number" /\ x.v \in 0..100

\* C18: every ATSScore the newer calculateATSScore returns has score and
\* matchPercentage that are numbers within 0..100, on the model-response
\* path and on the keyword-overlap path.
C18_ScoreWithinRange ==
    ( /\ last.op = "calculateATSScore"
      /\ last.arg.g = 2
      /\ last.outcome = "resolved" )
        => /\ InRange(last.result.score)
           /\ InRange(last.result.matchPercentage)

Stages == <<"extractJobRequirements", "tailorResumeForJob", "calculateATSScore">>

\* C19: when the chain started by a click on the tailor button has ended,
\* every one of its stages (extraction, tailoring, scoring) has run, also
\* after a stage failed, and the tailor button is enabled again.
C19_LaterStagesRunAfterFailure ==
    (chain.tailor = "idle" /\ chain.ran # <<>>)
        => /\ chain.ran = Stages
           /\ ~chain.tailorDisabled

InFlight ==
    {b \in {"tailor", "download", "save"} : chain[b] # "idle"}

\* C20: in one popup at most one chain of asynchronous calls (tailor,
\* download or save) is in flight at any time, whatever the order of clicks.
C20_OneChainInFlight ==
    Cardinality(InFlight) <= 1

\* How many times each element occurs in a list.
Occurrences(list) ==
    [x \in {list[i] : i \in 1..Len(list)} |->
        Cardinality({i \in 1..Len(list) : list[i] = x})]

\* C21: the skill list of the resume tailorResumeForJob returns holds the
\* same skills as the master resume's skill list, each the same number of
\* times, for every response of the model.
C21_SkillsAreReordered ==
    (last.op = "tailorResumeForJob" /\ last.outcome = "resolved")
        => Occurrences(last.result.skills) = Occurrences(last.arg.resume.skills)

\* The tailor chain ends in this step after three responses that were each
\* the JSON object its prompt asks for.
EndsWellFormed ==
    /\ chain.tailor = "calculateATSScore"
    /\ chain'.tailor = "idle"
    /\ chain'.wellFormed

\* C22: with a master resume and a captured job, when extraction, tailoring
\* and scoring each get the JSON object their prompt asks for, the chain
\* ends in the success display with the download and save buttons enabled.
C22_WellFormedChainSucceeds ==
    [][EndsWellFormed => /\ chain'.banner = "success"
                         /\ ~chain'.downloadDisabled
                         /\ ~chain'.saveDisabled]_vars

\* What a caller and the stores see of a call.
Observed(r) ==
    [outcome |-> r.outcome, result |-> r.result, loc |-> r.loc, syn |-> r.syn]

\* C23: from the stores a getMasterResume call started in, and for each
\* availability of the synchronized backend, the two revisions of
\* getMasterResume return the same resume and leave the same stores.
C23_RevisionsAgree ==
    last.op = "getMasterResume" =>
        \A readOk \in BOOLEAN, writeOk \in BOOLEAN :
            Observed(getMasterResume1(chromeCap[last.ctx], last.preLoc,
                                      last.preSyn, readOk, writeOk))
              = Observed(getMasterResume2(chromeCap[last.ctx], last.preLoc,
                                          last.preSyn, readOk, writeOk))

\* C26: the master resume entry of the synchronized store is a value the
\* web application wrote (or absent): no event in the content script of
\* another page changes it.
C26_OnlyWebAppWritesResume ==
    sync[MASTER_RESUME] \in SyncedResumes

\* The two encodings of a captured value: as it is (batch write) and as
\* its JSON text (saveToStorage).
Encodings(value) == {value, JSON_stringify(value)}

\* C24: getFromStorageSync gives back what the content script captured,
\* whichever revision wrote it: the markup string for currentPageHTML and
\* the heuristic record for currentJobData.
C24_ReadGivesCaptured ==
    (last.op = "getFromStorageSync" /\ last.outcome = "resolved")
        => \A p \in Pages :
              sync[last.arg.v] \in Encodings(captured(p, last.arg.v))
                 => last.result = captured(p, last.arg.v)

C24_Witness ==
    /\ last.op = "getFromStorageSync"
    /\ last.arg = Str(PAGE_HTML)
    /\ sync[PAGE_HTML] = JSON_stringify(PageHTML(1))
    /\ last.result = PageHTML(1)

\* C27: a getFromStorage call settles (resolves or rejects) whatever a
\* writer of the repository stored under the key; its caller is never left
\* waiting.
C27_GetFromStorageSettles ==
    last.op = "getFromStorage" => last.outcome \in {"resolved", "rejected"}

\* A click on the save button builds the application record, from
\* state.tailoredResume and state.atsScore as they are at the click.
BuildsApplication ==
    chain.save = "idle" /\ chain'.save = "saveApplication"

\* C25: the application record the save button sends holds a tailored
\* resume and the ATS score computed for that resume, also when the click
\* comes while a "Tailor Again" chain is running.
C25_ScoreBelongsToResume ==
    [][BuildsApplication => chain.scoredResume = chain.tailoredResume]_vars

\* No store holds a master resume record.
NoResumeStored ==
    /\ sync[MASTER_RESUME] = Undefined
    /\ \A o \in Origins : local[o][MASTER_RESUME] = Null

Cleared(call) == call.op = "clearAllStorage" /\ call.outcome = "resolved"

\* C28: once clearAllStorage has completed, no store holds the master
\* resume, and the next getMasterResume of the context returns null and
\* does not bring the record back.
C28_ClearedStaysCleared ==
    /\ Cleared(last) => NoResumeStored
    /\ (Cleared(prev) /\ last.op = "getMasterResume")
          => (last.result = Null /\ NoResumeStored)

\* C29: a page holds at most one injected button with at most one click
\* handler, whatever DOMContentLoaded events, observed mutations and
\* "injectButton" messages reach its content script.
C29_OneButtonPerPage ==
    \A p \in Pages : dom[p].buttons <= 1 /\ dom[p].handlers <= 1

C29_Witness ==
    \E p \in Pages :
        /\ dom[p].calls = MaxCalls
        /\ dom[p].buttons = 1
        /\ dom[p].handlers = 1

\* What tailoring leaves alone in an experience entry.
EntryFrame(exp) ==
    [title |-> exp.title, company |-> exp.company, startDate |-> exp.startDate]

\* C30: the resume tailorResumeForJob returns has the master resume's
\* contact and education, its experience entries in the same number and
\* order with the same title, company and dates, and no skill that the
\* master resume does not have.
C30_TailoringFrame ==
    (last.op = "tailorResumeForJob" /\ last.outcome = "resolved")
        => LET master == last.arg.resume
               result == last.result
           IN  /\ result.contact = master.contact
               /\ result.education = master.education
               /\ Len(result.experience) = Len(master.experience)
               /\ \A i \in 1..Len(master.experience) :
                     EntryFrame(result.experience[i])
                        = EntryFrame(master.experience[i])
               /\ \A i \in 1..Len(result.skills) :
                     \E j \in 1..Len(master.skills) :
                        result.skills[i] = master.skills[j]

C30_Witness ==
    /\ last.op = "tailorResumeForJob"
    /\ last.outcome = "resolved"
    /\ Replied /\ Ep.text = <<"{", Tailoring.v, "}">>
    /\ Len(last.arg.resume.experience) = 2
    /\ last.result.summary = "Engineer for this job"
    /\ last.result.experience[1].description = <<"shipped react apps">>
    /\ last.result.experience[2] = last.arg.resume.experience[2]

=============================================================================
